---- MODULE Spec2Model ----
(***************************************************************************)
(* kemenn: announce a project release.                                     *)
(*                                                                         *)
(* Strings are sequences of one-character strings, so that the regular     *)
(* expressions, the splitting and the searching of src/src/kemenn.rs are   *)
(* computed character by character.                                        *)
(***************************************************************************)
EXTENDS Integers, Sequences, FiniteSets, TLC

VARIABLES
    hpc,          \* position of a call of one of the pure functions
    in_version,   \* argument version of extract_semantic / get_repo_changelog
    in_doc,       \* the lines reader.lines() yields for the changelog file
    in_url,       \* argument url of get_project_name
    out,          \* value returned by the function called
    pc,           \* position of main
    opt_loose,    \* opts.loose
    opt_release,  \* opts.release
    opt_params,   \* opts.parameters
    emitter,      \* main's emitter
    recipients,   \* opts.recipients
    loose,        \* Project.loose
    url,          \* release_info's url
    version,      \* release_info's version
    sem_version,  \* release_info's sem_version
    project,      \* release_info's project
    info,         \* main's info: the ReleaseInfo returned, if any
    data,         \* MailDataBuilder.data
    signature,    \* result of get_signature()
    text,         \* the rendered mail, if any
    output,       \* what has been written: nothing, a file or standard output
    error,        \* the error main returned, if any
    calls         \* the fallible steps entered so far, in order

hvars == <<hpc, in_version, in_doc, in_url, out>>
mvars == <<pc, opt_loose, opt_release, opt_params, emitter, recipients, loose,
           url, version, sem_version, project, info, data, signature, text,
           output, error, calls>>
vars == <<hpc, in_version, in_doc, in_url, out, pc, opt_loose, opt_release,
          opt_params, emitter, recipients, loose, url, version, sem_version,
          project, info, data, signature, text, output, error, calls>>

----------------------------------------------------------------------------
(* Bounds of the model *)

MaxVerLen == 7
MaxUrlLen == 5
MaxLines == 3
MaxParams == 2

----------------------------------------------------------------------------
(* Option<T> and Result<T> *)

None == [some |-> FALSE, val |-> <<>>]
Some(x) == [some |-> TRUE, val |-> x]
Ok(x) == [ok |-> TRUE, val |-> x]
Err(e) == [ok |-> FALSE, val |-> <<e>>]

----------------------------------------------------------------------------
(* Characters and strings *)

Digit == {"0", "1", "2", "3", "4", "5", "6", "7", "8", "9"}
Space == {" ", "\t"}

RECURSIVE StringsUpTo(_, _)
StringsUpTo(A, n) ==
    IF n = 0 THEN {<<>>}
    ELSE LET S == StringsUpTo(A, n - 1)
         IN  S \cup {Append(s, c) : s \in {t \in S : Len(t) = n - 1}, c \in A}

RECURSIVE SeqsUpTo(_, _)
SeqsUpTo(S, n) ==
    IF n = 0 THEN {<<>>}
    ELSE LET T == SeqsUpTo(S, n - 1)
         IN  T \cup {Append(t, x) : t \in {u \in T : Len(u) = n - 1}, x \in S}

StartsWith(s, p) == Len(s) >= Len(p) /\ SubSeq(s, 1, Len(p)) = p

\* str::find: the position (from 1) of the first occurrence of p in s, 0 if none
Find(s, p) ==
    LET hits == {i \in 1..(Len(s) - Len(p) + 1) : SubSeq(s, i, i + Len(p) - 1) = p}
    IN  IF hits = {} THEN 0 ELSE CHOOSE i \in hits : \A j \in hits : i <= j

----------------------------------------------------------------------------
\* extract_semantic: the pattern is group 1, [^.]+ , optional, then group 2,
\* [\d]+\.[\d]+\.[\d] followed by any characters; it is not anchored

\* the ends q of the non-empty runs of digits v[p..q-1]
DigitRunEnds(v, p) ==
    {q \in (p + 1)..(Len(v) + 1) : \A k \in p..(q - 1) : v[k] \in Digit}

\* group 2 matches at p (and then runs to the end of v)
BodyMatchesAt(v, p) ==
    \E q1 \in DigitRunEnds(v, p) :
        /\ q1 <= Len(v) /\ v[q1] = "."
        /\ \E q2 \in DigitRunEnds(v, q1 + 1) :
              /\ q2 + 1 <= Len(v) /\ v[q2] = "."
              /\ v[q2 + 1] \in Digit

\* the matches of the whole pattern: start s, length k of group 1 (0: absent)
SemMatches(v) ==
    {m \in [s : 1..(Len(v) + 1), k : 0..Len(v)] :
        /\ m.s + m.k <= Len(v) + 1
        /\ \A i \in m.s..(m.s + m.k - 1) : v[i] # "."
        /\ BodyMatchesAt(v, m.s + m.k)}

\* Regex::captures: leftmost start, then the greedy group 1 as long as it can be
Captures(v) ==
    LET M == SemMatches(v)
    IN  IF M = {} THEN None
        ELSE Some(CHOOSE m \in M :
                    \A n \in M : m.s < n.s \/ (m.s = n.s /\ m.k >= n.k))

\* Captures::len: the number of groups of the pattern, group 0 included
CapturesLen == 3

extract_semantic(v) ==
    LET caps == Captures(v)
    IN  IF ~caps.some THEN Err("Invalid version")
        ELSE IF CapturesLen \in {1, 2} THEN Ok(v)
        ELSE IF CapturesLen = 3
             THEN Ok(SubSeq(v, caps.val.s + caps.val.k, Len(v)))
        ELSE Err("Invalid version")

----------------------------------------------------------------------------
(* get_project_name *)

DotGit == <<".", "g", "i", "t">>

\* url.split('/').last(): what follows the last '/', the whole url if none
LastSegment(u) ==
    LET slashes == {i \in 1..Len(u) : u[i] = "/"}
        last == IF slashes = {} THEN 0
                ELSE CHOOSE i \in slashes : \A j \in slashes : j <= i
    IN  Some(SubSeq(u, last + 1, Len(u)))

get_project_name(u) ==
    LET seg == LastSegment(u)
    IN  IF ~seg.some THEN None
        ELSE LET pos == Find(seg.val, DotGit)
             IN  IF pos > 0 THEN Some(SubSeq(seg.val, 1, pos - 1))
                 ELSE Some(seg.val)

----------------------------------------------------------------------------
(* get_repo_changelog *)

\* an item of a compiled pattern: a class of characters repeated min..max times
\* (max = -1: unbounded)
Lit(c) == [cls |-> "lit", ch |-> c, min |-> 1, max |-> 1]
AnyChar == [cls |-> "any", ch |-> "", min |-> 1, max |-> 1]
Spaces == [cls |-> "space", ch |-> "", min |-> 1, max |-> -1]
Digits(n) == [cls |-> "digit", ch |-> "", min |-> n, max |-> n]

InClass(item, c) ==
    CASE item.cls = "lit" -> c = item.ch
      [] item.cls = "any" -> c # "\n"
      [] item.cls = "space" -> c \in Space
      [] item.cls = "digit" -> c \in Digit

\* the items pat[i..] match s[j..] up to the end of s
RECURSIVE MatchFrom(_, _, _, _)
MatchFrom(pat, i, s, j) ==
    IF i > Len(pat) THEN j = Len(s) + 1
    ELSE LET left == Len(s) - j + 1
             hi == IF pat[i].max < 0 \/ pat[i].max > left THEN left
                   ELSE pat[i].max
         IN  \E n \in pat[i].min..hi :
                /\ \A k \in j..(j + n - 1) : InClass(pat[i], s[k])
                /\ MatchFrom(pat, i + 1, s, j + n)

\* the version as it is read once interpolated into the pattern, for the
\* versions made of digits, letters, "-" and ".": "." is the wildcard, the
\* others stand for themselves
VersionItems(v) ==
    [i \in 1..Len(v) |-> IF v[i] = "." THEN AnyChar ELSE Lit(v[i])]

\* ^##\s+\[ ... ]\s+-\s+[\d]{4}-[\d]{2}-[\d]{2}$ around the items of the version
HeadingItems(items) ==
    <<Lit("#"), Lit("#"), Spaces, Lit("[")>> \o items
    \o <<Lit("]"), Spaces, Lit("-"), Spaces, Digits(4), Lit("-"), Digits(2),
         Lit("-"), Digits(2)>>

\* Regex::new on the formatted pattern: a ")" in the version, no "(" being
\* available, is an unopened group
HeadingPattern(v) ==
    IF \E i \in 1..Len(v) : v[i] = ")" THEN Err("regex parse error")
    ELSE Ok(HeadingItems(VersionItems(v)))

\* Regex::is_match with ^ and $
IsMatch(pat, line) == MatchFrom(pat, 1, line, 1)

HeadingMarker == <<"#", "#", " ">>

\* the loop over the lines, from line i on
RECURSIVE ScanLines(_, _, _, _, _)
ScanLines(pat, lines, i, found, acc) ==
    IF i > Len(lines) THEN acc
    ELSE IF ~found
         THEN ScanLines(pat, lines, i + 1, IsMatch(pat, lines[i]), acc)
    ELSE IF StartsWith(lines[i], HeadingMarker) THEN acc
    ELSE ScanLines(pat, lines, i + 1, found, acc \o lines[i] \o <<"\n">>)

\* file: the lines of the changelog file, or an error when it cannot be read
get_repo_changelog(file, v) ==
    LET pattern == HeadingPattern(v)
    IN  IF ~pattern.ok THEN pattern
        ELSE IF ~file.ok THEN file
        ELSE Ok(ScanLines(pattern.val, file.val, 1, FALSE, <<>>))

----------------------------------------------------------------------------
(* The state main starts from, and the state in which main is not running *)

NoInfo == [some |-> FALSE,
           val |-> [project |-> <<>>, url |-> <<>>, version |-> <<>>,
                    changelog |-> <<>>]]

EmptyMap == [k \in {} |-> <<>>]

MainVarsInit ==
    /\ emitter = None /\ recipients = <<>> /\ loose = FALSE
    /\ url = <<>> /\ version = <<>> /\ sem_version = <<>> /\ project = <<>>
    /\ info = NoInfo /\ data = EmptyMap /\ signature = None /\ text = None
    /\ output = "none" /\ error = <<>> /\ calls = <<>>

MainIdle ==
    /\ pc = "idle" /\ opt_loose = FALSE /\ opt_release = None
    /\ opt_params = None
    /\ MainVarsInit

CallIdle ==
    /\ hpc = "idle" /\ in_version = <<>> /\ in_doc = <<>> /\ in_url = <<>>
    /\ out = <<>>

----------------------------------------------------------------------------
(* extract_semantic called on every short string of these characters *)

SemChars == {"0", "1", ".", "v", "-"}

InitSemantic ==
    /\ hpc = "call"
    /\ in_version \in StringsUpTo(SemChars, MaxVerLen)
    /\ in_doc = <<>> /\ in_url = <<>> /\ out = <<>>
    /\ MainIdle

CallExtractSemantic ==
    /\ hpc = "call"
    /\ out' = extract_semantic(in_version)
    /\ hpc' = "return"
    /\ UNCHANGED <<in_version, in_doc, in_url>>
    /\ UNCHANGED mvars

SpecSemantic == InitSemantic /\ [][CallExtractSemantic]_vars

----------------------------------------------------------------------------
(* get_project_name called on every short string of these characters, and on
   the URLs of the documentation *)

UrlChars == {"/", ".", "g", "i", "t", "a"}

Url_ssh == <<"g", "i", "t", "@", "e", "x", "a", "m", "p", "l", "e", ".", "c",
             "o", "m", ":", "o", "r", "g", "/", "m", "y", "p", "r", "o", "j",
             ".", "g", "i", "t">>
Url_https == <<"h", "t", "t", "p", "s", ":", "/", "/", "e", "x", "a", "m", "p",
               "l", "e", ".", "c", "o", "m", "/", "o", "r", "g", "/", "m", "y",
               "p", "r", "o", "j">>
Url_pages == <<"o", "r", "g", "/", "m", "y", ".", "g", "i", "t", "h", "u", "b",
               ".", "i", "o">>

InitName ==
    /\ hpc = "call"
    /\ in_url \in StringsUpTo(UrlChars, MaxUrlLen)
                    \cup {Url_ssh, Url_https, Url_pages}
    /\ in_version = <<>> /\ in_doc = <<>> /\ out = <<>>
    /\ MainIdle

CallGetProjectName ==
    /\ hpc = "call"
    /\ out' = get_project_name(in_url)
    /\ hpc' = "return"
    /\ UNCHANGED <<in_version, in_doc, in_url>>
    /\ UNCHANGED mvars

SpecName == InitName /\ [][CallGetProjectName]_vars

----------------------------------------------------------------------------
(* get_repo_changelog called on every short document of these lines *)

Line_1_2 == <<"#", "#", " ", "[", "1", ".", "2", "]", " ", "-", " ", "2", "0",
              "2", "4", "-", "0", "1", "-", "0", "1">>
Line_1x2 == <<"#", "#", " ", "[", "1", "x", "2", "]", " ", "-", " ", "2", "0",
              "2", "4", "-", "0", "1", "-", "0", "1">>
Line_9_9 == <<"#", "#", " ", "[", "9", ".", "9", "]", " ", "-", " ", "2", "0",
              "2", "3", "-", "1", "2", "-", "3", "1">>
Line_tab == <<"#", "#", "\t", "[", "1", ".", "2", "]", " ", " ", "-", " ", " ",
              "2", "0", "2", "4", "-", "0", "1", "-", "0", "1">>
Line_A == <<"l", "i", "n", "e", " ", "A">>
Line_B == <<"l", "i", "n", "e", " ", "B">>
Line_other == <<"#", "#", " ", "U", "n", "r", "e", "l", "e", "a", "s", "e", "d">>
Line_sub == <<"#", "#", "#", " ", "A", "d", "d", "e", "d">>

LineSet == {Line_1_2, Line_1x2, Line_9_9, Line_tab, Line_A, Line_B,
            Line_other, Line_sub, <<>>}

ChangelogVersions == {<<"1", ".", "2">>, <<"1", "x", "2">>, <<"9", ".", "9">>,
                      <<"7", ".", "7">>, <<"1", ")">>, <<>>}

InitChangelog ==
    /\ hpc = "call"
    /\ in_version \in ChangelogVersions
    /\ in_doc \in SeqsUpTo(LineSet, MaxLines)
    /\ in_url = <<>> /\ out = <<>>
    /\ MainIdle

CallGetRepoChangelog ==
    /\ hpc = "call"
    /\ out' = get_repo_changelog(Ok(in_doc), in_version)
    /\ hpc' = "return"
    /\ UNCHANGED <<in_version, in_doc, in_url>>
    /\ UNCHANGED mvars

SpecChangelog == InitChangelog /\ [][CallGetRepoChangelog]_vars

----------------------------------------------------------------------------
(* MailDataBuilder *)

K_prefix == <<"p", "r", "e", "f", "i", "x">>
K_emitter == <<"e", "m", "i", "t", "t", "e", "r">>
K_recipients == <<"r", "e", "c", "i", "p", "i", "e", "n", "t", "s">>
K_project == <<"p", "r", "o", "j", "e", "c", "t">>
K_url == <<"u", "r", "l">>
K_version == <<"v", "e", "r", "s", "i", "o", "n">>
K_text == <<"t", "e", "x", "t">>
K_signature == <<"s", "i", "g", "n", "a", "t", "u", "r", "e">>
Announce == <<"A", "N", "N", "O", "U", "N", "C", "E">>
\* the grave accent, which cannot be written in a string here
Grave == "GRAVE"
TextHead == <<"W", "h", "a", "t", "'", "s", " ", "n", "e", "w", "?", "\n", "\n",
              Grave, Grave, Grave, "\n">>
TextTail == <<Grave, Grave, Grave>>

\* HashMap::insert
Insert(m, k, v) == [x \in DOMAIN m \cup {k} |-> IF x = k THEN v ELSE m[x]]

\* HashMap::extend: every entry of n is inserted into m
Extend(m, n) ==
    [x \in DOMAIN m \cup DOMAIN n |-> IF x \in DOMAIN n THEN n[x] ELSE m[x]]

\* [S]::join(", ")
RECURSIVE Join(_)
Join(rs) ==
    IF Len(rs) = 0 THEN <<>>
    ELSE IF Len(rs) = 1 THEN rs[1]
    ELSE rs[1] \o <<",", " ">> \o Join(Tail(rs))

MailDataBuilder_new == Insert(EmptyMap, K_prefix, Announce)

MailDataBuilder_emitter(d, e) == Insert(d, K_emitter, e)

MailDataBuilder_recipients(d, rs) == Insert(d, K_recipients, Join(rs))

MailDataBuilder_info(d, i) ==
    Insert(Insert(Insert(Insert(d, K_project, i.project), K_url, i.url),
                  K_version, i.version),
           K_text, TextHead \o i.changelog \o TextTail)

MailDataBuilder_signature(d, t) == Insert(d, K_signature, t)

MailDataBuilder_extra_keep(d, m) == Extend(m, d)

MailDataBuilder_extra(d, m) == Extend(d, m)

\* parse_parameter: splitn(2, ':')
parse_parameter(p) ==
    LET c == Find(p, <<":">>)
    IN  IF c = 0 THEN None
        ELSE Some(<<SubSeq(p, 1, c - 1), SubSeq(p, c + 1, Len(p))>>)

\* parameters.iter().filter_map(parse_parameter).collect::<HashMap>()
RECURSIVE CollectParameters(_)
CollectParameters(ps) ==
    IF Len(ps) = 0 THEN EmptyMap
    ELSE LET rest == CollectParameters(SubSeq(ps, 1, Len(ps) - 1))
             kv == parse_parameter(ps[Len(ps)])
         IN  IF kv.some THEN Insert(rest, kv.val[1], kv.val[2]) ELSE rest

----------------------------------------------------------------------------
(* What main reads from the command line, the repository and the files *)

V_v123 == <<"v", "1", ".", "2", ".", "3">>
V_paren == <<"1", ".", "2", ".", "3", ")">>
V_x == <<"x">>

ReleaseOpts == {None, Some(<<>>), Some(V_v123), Some(V_x)}
TagResults == {Err("git describe failed"), Ok(V_v123), Ok(V_paren)}
UrlResults == {Err("git config failed"), Ok(Url_ssh), Ok(Url_https)}

Mail_a == <<"a", "@", "x", ".", "c", "o", "m">>
Mail_b == <<"b", "@", "x", ".", "c", "o", "m">>
Mail_c == <<"c", "@", "x", ".", "c", "o", "m">>
EmitterResults == {None, Some(Mail_a)}
RecipientArgs == {<<>>, <<Mail_b>>}
InputFiles == {None, Some(Err("open failed")), Some(Ok(<<Mail_c>>))}

Line_1_2_3 == <<"#", "#", " ", "[", "1", ".", "2", ".", "3", "]", " ", "-", " ",
                "2", "0", "2", "4", "-", "0", "1", "-", "0", "1">>
Line_1_2_2 == <<"#", "#", " ", "[", "1", ".", "2", ".", "2", "]", " ", "-", " ",
                "2", "0", "2", "3", "-", "0", "1", "-", "0", "1">>
Line_v1_2_3 == <<"#", "#", " ", "[", "v", "1", ".", "2", ".", "3", "]", " ", "-",
                 " ", "2", "0", "2", "4", "-", "0", "1", "-", "0", "1">>
ChangelogFiles ==
    {Err("open failed"),
     Ok(<<Line_1_2_3, Line_A, Line_B, Line_1_2_2, Line_A>>),
     Ok(<<Line_other, Line_v1_2_3, Line_B>>)}

SignatureFiles == {None, Some(<<"A", "l", "i", "c", "e">>)}

P_sigBob == <<"s", "i", "g", "n", "a", "t", "u", "r", "e", ":", "B", "o", "b">>
P_sigAl == <<"s", "i", "g", "n", "a", "t", "u", "r", "e", ":", "A", "l">>
P_prefix == <<"p", "r", "e", "f", "i", "x", ":", "a", ":", "b">>
P_wip == <<"w", "i", "p", ":", "1">>
P_oops == <<"o", "o", "p", "s">>
ParameterSet == {P_sigBob, P_sigAl, P_prefix, P_wip, P_oops}
ParameterOpts == {None} \cup {Some(ps) : ps \in SeqsUpTo(ParameterSet, MaxParams)}

TemplateFiles == {None, Some(Err("read failed")), Some(Ok(<<"well-formed">>)),
                  Some(Ok(<<"malformed">>))}
OutputOpts == {None, Some("file")}

----------------------------------------------------------------------------
(* main *)

Init ==
    /\ pc = "emitter"
    /\ opt_loose \in BOOLEAN
    /\ opt_release \in ReleaseOpts
    /\ opt_params \in ParameterOpts
    /\ emitter = None /\ recipients \in RecipientArgs /\ loose = FALSE
    /\ url = <<>> /\ version = <<>> /\ sem_version = <<>> /\ project = <<>>
    /\ info = NoInfo /\ data = EmptyMap /\ signature = None /\ text = None
    /\ output = "none" /\ error = <<>> /\ calls = <<>>
    /\ CallIdle

Call(step, arg, ok, ret) == [step |-> step, arg |-> arg, ok |-> ok, ret |-> ret]

\* the ? operator: main returns the error
Fail(ctx, e) == pc' = "failed" /\ error' = ctx \o e

InReleaseInfo == <<"Failed to get release info">>

GetEmitter ==
    /\ pc = "emitter"
    /\ \E e \in EmitterResults :
          IF e.some
          THEN /\ emitter' = e /\ pc' = "recipients"
               /\ UNCHANGED error
          ELSE /\ Fail(<<>>, <<"Missing emitter email">>)
               /\ UNCHANGED emitter
    /\ UNCHANGED <<opt_loose, opt_release, opt_params, recipients, loose, url,
                   version, sem_version, project, info, data, signature, text,
                   output, calls>>
    /\ UNCHANGED hvars

AddRecipients ==
    /\ pc = "recipients"
    /\ \E f \in InputFiles :
          IF ~f.some
          THEN /\ pc' = "project" /\ UNCHANGED <<recipients, error>>
          ELSE IF f.val.ok
          THEN /\ recipients' = recipients \o f.val.val
               /\ pc' = "project" /\ UNCHANGED error
          ELSE /\ Fail(<<"Failed to add recipients from input">>, f.val.val)
               /\ UNCHANGED recipients
    /\ UNCHANGED <<opt_loose, opt_release, opt_params, emitter, loose, url,
                   version, sem_version, project, info, data, signature, text,
                   output, calls>>
    /\ UNCHANGED hvars

NewProject ==
    /\ pc = "project"
    /\ loose' = opt_loose
    /\ pc' = "url"
    /\ UNCHANGED <<opt_loose, opt_release, opt_params, emitter, recipients, url,
                   version, sem_version, project, info, data, signature, text,
                   output, error, calls>>
    /\ UNCHANGED hvars

----------------------------------------------------------------------------
(* Project::release_info, called from main *)

GetRepoUrl_continue ==
    /\ pc = "url"
    /\ \E r \in UrlResults :
          /\ calls' = Append(calls, Call("get_repo_url", <<>>, r.ok, r.val))
          /\ url' = IF r.ok THEN r.val ELSE <<>>
          /\ pc' = "version" /\ UNCHANGED error
    /\ UNCHANGED <<opt_loose, opt_release, opt_params, emitter, recipients,
                   loose, version, sem_version, project, info, data, signature,
                   text, output>>
    /\ UNCHANGED hvars

GetRepoUrl ==
    /\ pc = "url"
    /\ \E r \in UrlResults :
          /\ calls' = Append(calls, Call("get_repo_url", <<>>, r.ok, r.val))
          /\ IF r.ok
             THEN /\ url' = r.val /\ pc' = "version" /\ UNCHANGED error
             ELSE /\ Fail(InReleaseInfo, r.val) /\ UNCHANGED url
    /\ UNCHANGED <<opt_loose, opt_release, opt_params, emitter, recipients,
                   loose, version, sem_version, project, info, data, signature,
                   text, output>>
    /\ UNCHANGED hvars

ResolveVersion ==
    /\ pc = "version"
    /\ IF opt_release.some
       THEN /\ version' = opt_release.val /\ pc' = "semantic"
            /\ UNCHANGED <<calls, error>>
       ELSE \E r \in TagResults :
               /\ calls' = Append(calls, Call("get_repo_latest_version", <<>>,
                                              r.ok, r.val))
               /\ IF r.ok
                  THEN /\ version' = r.val /\ pc' = "semantic"
                       /\ UNCHANGED error
                  ELSE /\ Fail(InReleaseInfo, r.val) /\ UNCHANGED version
    /\ UNCHANGED <<opt_loose, opt_release, opt_params, emitter, recipients,
                   loose, url, sem_version, project, info, data, signature,
                   text, output>>
    /\ UNCHANGED hvars

SemVersion_always ==
    /\ pc = "semantic"
    /\ LET r == extract_semantic(version)
       IN  /\ calls' = Append(calls, Call("extract_semantic", version,
                                          r.ok, r.val))
           /\ IF r.ok
              THEN /\ sem_version' = r.val /\ pc' = "name"
                   /\ UNCHANGED error
              ELSE /\ Fail(InReleaseInfo, r.val) /\ UNCHANGED sem_version
    /\ UNCHANGED <<opt_loose, opt_release, opt_params, emitter, recipients,
                   loose, url, version, project, info, data, signature, text,
                   output>>
    /\ UNCHANGED hvars

SemVersion ==
    /\ pc = "semantic"
    /\ IF ~loose
       THEN LET r == extract_semantic(version)
            IN  /\ calls' = Append(calls, Call("extract_semantic", version,
                                               r.ok, r.val))
                /\ IF r.ok
                   THEN /\ sem_version' = r.val /\ pc' = "name"
                        /\ UNCHANGED error
                   ELSE /\ Fail(InReleaseInfo, r.val) /\ UNCHANGED sem_version
       ELSE /\ sem_version' = version /\ pc' = "name"
            /\ UNCHANGED <<calls, error>>
    /\ UNCHANGED <<opt_loose, opt_release, opt_params, emitter, recipients,
                   loose, url, version, project, info, data, signature, text,
                   output>>
    /\ UNCHANGED hvars

ProjectName ==
    /\ pc = "name"
    /\ LET r == get_project_name(url)
       IN  /\ calls' = Append(calls, Call("get_project_name", url, r.some,
                                          r.val))
           /\ IF r.some
              THEN /\ project' = r.val /\ pc' = "changelog"
                   /\ UNCHANGED error
              ELSE /\ Fail(InReleaseInfo,
                           <<"Failed to extract project name from URL">>)
                   /\ UNCHANGED project
    /\ UNCHANGED <<opt_loose, opt_release, opt_params, emitter, recipients,
                   loose, url, version, sem_version, info, data, signature,
                   text, output>>
    /\ UNCHANGED hvars

ReleaseInfo_sem(p, u, v, c) ==
    [project |-> p, url |-> u, version |-> sem_version, changelog |-> c]

ReleaseInfo(p, u, v, c) ==
    [project |-> p, url |-> u, version |-> v, changelog |-> c]

Changelog ==
    /\ pc = "changelog"
    /\ \E f \in ChangelogFiles :
          LET r == get_repo_changelog(f, sem_version)
          IN  /\ calls' = Append(calls, Call("get_repo_changelog", sem_version,
                                             r.ok, r.val))
              /\ IF r.ok
                 THEN /\ info' = Some(ReleaseInfo(project, url, version, r.val))
                      /\ pc' = "data" /\ UNCHANGED error
                 ELSE /\ Fail(InReleaseInfo, r.val) /\ UNCHANGED info
    /\ UNCHANGED <<opt_loose, opt_release, opt_params, emitter, recipients,
                   loose, url, version, sem_version, project, data, signature,
                   text, output>>
    /\ UNCHANGED hvars

----------------------------------------------------------------------------
(* main, after release_info *)

BuildMailData ==
    /\ pc = "data"
    /\ data' = MailDataBuilder_info(
                   MailDataBuilder_recipients(
                       MailDataBuilder_emitter(MailDataBuilder_new, emitter.val),
                       recipients),
                   info.val)
    /\ pc' = "signature"
    /\ UNCHANGED <<opt_loose, opt_release, opt_params, emitter, recipients,
                   loose, url, version, sem_version, project, info, signature,
                   text, output, error, calls>>
    /\ UNCHANGED hvars

Signature ==
    /\ pc = "signature"
    /\ \E g \in SignatureFiles :
          /\ signature' = g
          /\ data' = IF g.some THEN MailDataBuilder_signature(data, g.val)
                     ELSE data
    /\ pc' = "extra"
    /\ UNCHANGED <<opt_loose, opt_release, opt_params, emitter, recipients,
                   loose, url, version, sem_version, project, info, text,
                   output, error, calls>>
    /\ UNCHANGED hvars

Extra ==
    /\ pc = "extra"
    /\ data' = IF opt_params.some
               THEN MailDataBuilder_extra(data, CollectParameters(opt_params.val))
               ELSE data
    /\ pc' = "render"
    /\ UNCHANGED <<opt_loose, opt_release, opt_params, emitter, recipients,
                   loose, url, version, sem_version, project, info, signature,
                   text, output, error, calls>>
    /\ UNCHANGED hvars

\* the template is read, then MailBuilder::build renders it: a template that is
\* not well-formed is refused, the default one is well-formed
Render ==
    /\ pc = "render"
    /\ \E t \in TemplateFiles :
          LET read == ~t.some \/ t.val.ok
              tpl == IF ~t.some THEN <<"DEFAULT_TEMPLATE">> ELSE t.val.val
              ok == read /\ tpl # <<"malformed">>
          IN  /\ calls' = Append(calls, Call("render", <<>>, ok, <<>>))
              /\ IF ok
                 THEN /\ text' = Some([template |-> tpl, data |-> data])
                      /\ pc' = "write" /\ UNCHANGED error
                 ELSE IF ~read
                 THEN /\ Fail(<<"Failed to read template">>, t.val.val)
                      /\ UNCHANGED text
                 ELSE /\ Fail(<<>>, <<"template error">>)
                      /\ UNCHANGED text
    /\ UNCHANGED <<opt_loose, opt_release, opt_params, emitter, recipients,
                   loose, url, version, sem_version, project, info, data,
                   signature, output>>
    /\ UNCHANGED hvars

WriteOutput ==
    /\ pc = "write"
    /\ \E o \in OutputOpts, ok \in BOOLEAN :
          /\ calls' = Append(calls, Call("write", <<>>, ok, <<>>))
          /\ IF ok
             THEN /\ output' = (IF o.some THEN "file" ELSE "stdout")
                  /\ pc' = "done" /\ UNCHANGED error
             ELSE /\ Fail(IF o.some THEN <<"Failed to write output">> ELSE <<>>,
                          <<"io error">>)
                  /\ UNCHANGED output
    /\ UNCHANGED <<opt_loose, opt_release, opt_params, emitter, recipients,
                   loose, url, version, sem_version, project, info, data,
                   signature, text>>
    /\ UNCHANGED hvars

Next ==
    \/ GetEmitter
    \/ AddRecipients
    \/ NewProject
    \/ GetRepoUrl
    \/ ResolveVersion
    \/ SemVersion
    \/ ProjectName
    \/ Changelog
    \/ BuildMailData
    \/ Signature
    \/ Extra
    \/ Render
    \/ WriteOutput

Spec == Init /\ [][Next]_vars

----------------------------------------------------------------------------
(* Properties *)

\* the lines lines[a..b], each followed by a newline
RECURSIVE LinesText(_, _, _)
LinesText(lines, a, b) ==
    IF a > b THEN <<>>
    ELSE LinesText(lines, a, b - 1) \o lines[b] \o <<"\n">>

\* line is "## [v] - YYYY-MM-DD" with the token v itself between the brackets
IsHeadingOf(v, line) ==
    IsMatch(HeadingItems([i \in 1..Len(v) |-> Lit(v[i])]), line)

Least(S) == CHOOSE i \in S : \A j \in S : i <= j

\* the section of version v in the document: after the first heading of v, up
\* to the next line starting with "## "
SectionOf(lines, v) ==
    LET heads == {i \in 1..Len(lines) : IsHeadingOf(v, lines[i])}
    IN  IF heads = {} THEN <<>>
        ELSE LET h == Least(heads)
                 stops == {j \in (h + 1)..Len(lines) :
                              StartsWith(lines[j], HeadingMarker)}
                 e == IF stops = {} THEN Len(lines) + 1 ELSE Least(stops)
             IN  LinesText(lines, h + 1, e - 1)

\* C1: for every document and every version, get_repo_changelog returns the
\* lines after the first heading of that version and before the next line that
\* starts with "## ", each followed by a newline, and the empty string, not an
\* error, when no line is a heading of that version.
C1_SectionReturned ==
    hpc = "return" => out = Ok(SectionOf(in_doc, in_version))

\* C8: the heading matcher is specific to the version: when no line of the
\* document is a heading naming exactly that version, no section is selected
\* and nothing is extracted.
C8_MatcherIsLiteral ==
    (/\ hpc = "return" /\ out.ok
     /\ \A i \in 1..Len(in_doc) : ~IsHeadingOf(in_version, in_doc[i]))
    => out.val = <<>>

\* v[p..] is MAJOR.MINOR.PATCH followed by anything, each number being digits
SemverAt(v, p) ==
    \E a \in p..Len(v), b \in p..Len(v) :
        /\ a + 1 < b /\ b < Len(v)
        /\ \A i \in p..(a - 1) : v[i] \in Digit
        /\ p < a /\ v[a] = "."
        /\ \A i \in (a + 1)..(b - 1) : v[i] \in Digit
        /\ v[b] = "."
        /\ v[b + 1] \in Digit

\* C2: a version already in MAJOR.MINOR.PATCH form, without prefix, is returned
\* unchanged by extract_semantic.
C2_PlainVersionUnchanged ==
    (hpc = "return" /\ SemverAt(in_version, 1)) => out = Ok(in_version)

\* C3: for a version made of a prefix without dot (and without digit) followed
\* by MAJOR.MINOR.PATCH, extract_semantic returns what follows the prefix.
C3_PrefixRemoved ==
    hpc = "return" =>
        \A p \in 1..Len(in_version) :
            (/\ \A i \in 1..p : in_version[i] \notin Digit \cup {"."}
             /\ SemverAt(in_version, p + 1))
            => out = Ok(SubSeq(in_version, p + 1, Len(in_version)))

\* what follows the last "/" of u
AfterLastSlash(u) ==
    CHOOSE t \in {SubSeq(u, i, Len(u)) : i \in 1..(Len(u) + 1)} :
        /\ \A k \in 1..Len(t) : t[k] # "/"
        /\ Len(t) = Len(u) \/ u[Len(u) - Len(t)] = "/"

EndsWith(s, p) ==
    Len(s) >= Len(p) /\ SubSeq(s, Len(s) - Len(p) + 1, Len(s)) = p

\* C4: get_project_name returns the last segment of the URL, without its
\* trailing ".git" if it has one, and nothing when the URL has no segment.
C4_LastSegmentWithoutGitSuffix ==
    hpc = "return" =>
        LET seg == AfterLastSlash(in_url)
        IN  IF \A k \in 1..Len(in_url) : in_url[k] = "/" THEN ~out.some
            ELSE IF EndsWith(seg, DotGit)
                 THEN out = Some(SubSeq(seg, 1, Len(seg) - Len(DotGit)))
            ELSE out = Some(seg)

\* the positions of the calls of a step
CallsOf(step) == {i \in 1..Len(calls) : calls[i].step = step}

Succeeded(step) == \E i \in CallsOf(step) : calls[i].ok

StepsOfReleaseInfo ==
    {"get_repo_url", "get_repo_latest_version", "extract_semantic",
     "get_project_name", "get_repo_changelog"}

\* every step of a run that returned a release record was taken, in order
ReleaseInfoStepsDone ==
    /\ Succeeded("get_repo_url") /\ Succeeded("get_project_name")
    /\ Succeeded("get_repo_changelog")
    /\ ~opt_release.some => Succeeded("get_repo_latest_version")
    /\ ~opt_loose => Succeeded("extract_semantic")
    /\ \A i \in CallsOf("get_repo_url"), j \in 1..Len(calls) : i <= j
    /\ \A i \in CallsOf("get_repo_latest_version"),
          j \in CallsOf("extract_semantic") \cup CallsOf("get_project_name") :
          i < j
    /\ \A i \in CallsOf("extract_semantic"), j \in CallsOf("get_project_name") :
          i < j
    /\ \A i \in CallsOf("get_project_name"),
          j \in CallsOf("get_repo_changelog") : i < j

ExtraPairs ==
    IF opt_params.some
    THEN {i \in 1..Len(opt_params.val) :
             \E c \in 1..Len(opt_params.val[i]) : opt_params.val[i][c] = ":"}
    ELSE {}

FirstColon(q) == Least({c \in 1..Len(q) : q[c] = ":"})
KeyOf(i) ==
    SubSeq(opt_params.val[i], 1, FirstColon(opt_params.val[i]) - 1)
ValueOf(i) ==
    SubSeq(opt_params.val[i], FirstColon(opt_params.val[i]) + 1,
           Len(opt_params.val[i]))

\* what main inserted last for the key k, the extra parameters left aside
InsertedLast(k) ==
    CASE k = K_prefix -> Announce
      [] k = K_emitter -> emitter.val
      [] k = K_recipients -> Join(recipients)
      [] k = K_project -> info.val.project
      [] k = K_url -> info.val.url
      [] k = K_version -> info.val.version
      [] k = K_text -> TextHead \o info.val.changelog \o TextTail
      [] k = K_signature -> signature.val

InsertedKeys ==
    {K_prefix, K_emitter, K_recipients, K_project, K_url, K_version, K_text}
    \cup (IF signature.some THEN {K_signature} ELSE {})

\* C6: in the context main hands to the renderer, a key given as an extra
\* key:value parameter maps to the value of that parameter (the last one of
\* that key), whatever was inserted for it before, and the other keys keep
\* the value inserted last for them.
C6_ExtraParametersOverride ==
    pc \in {"render", "write", "done"} =>
        /\ DOMAIN data = InsertedKeys \cup {KeyOf(i) : i \in ExtraPairs}
        /\ \A i \in ExtraPairs :
              (\A j \in ExtraPairs : KeyOf(j) = KeyOf(i) => j <= i)
              => data[KeyOf(i)] = ValueOf(i)
        /\ \A k \in InsertedKeys :
              (\A i \in ExtraPairs : KeyOf(i) # k) => data[k] = InsertedLast(k)

\* C6 happens: signature:Bob is given and the dotfile holds a signature
C6_Witness ==
    /\ pc = "done" /\ signature.some /\ opt_params.some
    /\ signature.val # <<"B", "o", "b">>
    /\ \E i \in 1..Len(opt_params.val) : opt_params.val[i] = P_sigBob
    /\ data[K_signature] = <<"B", "o", "b">>

\* C7: the version of every release record returned is not empty.
C7_VersionNotEmpty ==
    info.some => info.val.version # <<>>

\* C9: in loose mode extract_semantic is not called, no invalid-version error
\* is returned and the key handed to get_repo_changelog is the resolved
\* version; in strict mode the key is what extract_semantic returned for the
\* resolved version, and when extract_semantic fails the changelog is not read.
C9_LooseSkipsSemantic ==
    /\ opt_loose =>
          /\ CallsOf("extract_semantic") = {}
          /\ \A k \in 1..Len(error) : error[k] # "Invalid version"
          /\ \A i \in CallsOf("get_repo_changelog") : calls[i].arg = version
    /\ ~opt_loose =>
          /\ \A i \in CallsOf("get_repo_changelog") :
                \E j \in CallsOf("extract_semantic") :
                    /\ j < i /\ calls[j].ok
                    /\ calls[j].arg = version
                    /\ calls[i].arg = calls[j].ret
          /\ (\E j \in CallsOf("extract_semantic") : ~calls[j].ok)
             => /\ CallsOf("get_repo_changelog") = {}
                /\ pc = "failed"

\* C9 happens: loose mode, a version that is no semantic version, a record
\* returned
C9_Witness ==
    /\ opt_loose /\ info.some
    /\ ~SemverAt(version, 1)
    /\ \A p \in 1..Len(version) : ~SemverAt(version, p)
    /\ \E i \in CallsOf("get_repo_changelog") : calls[i].arg = version

\* C10: the version of the record returned is the resolved version, the
\* explicit one if given (the latest tag is then not asked for), the latest
\* tag otherwise, also when the key of the changelog lookup differs from it.
C10_RecordKeepsResolvedVersion ==
    info.some =>
        /\ opt_release.some =>
              /\ info.val.version = opt_release.val
              /\ CallsOf("get_repo_latest_version") = {}
        /\ ~opt_release.some =>
              \E i \in CallsOf("get_repo_latest_version") :
                  calls[i].ok /\ info.val.version = calls[i].ret
        /\ info.val.url = url /\ info.val.project = project

\* C10 happens: the latest tag has a prefix that the lookup key has not
C10_Witness ==
    /\ info.some /\ ~opt_release.some
    /\ \E i \in CallsOf("get_repo_changelog") :
          /\ calls[i].arg # info.val.version
          /\ calls[i].arg = <<"1", ".", "2", ".", "3">>
    /\ info.val.version = V_v123

====
